---- MODULE Spec2Model ----
(***************************************************************************)
(* Model of bed-leveling.py: the WizardFrame state (connection, mesh       *)
(* geometry, leveling session, Z heights, busy gauge, widget enabling),    *)
(* the GCodeReader thread that turns received lines into posted events,    *)
(* the wx event queue, and the self-rescheduling wx.FutureCall polls.      *)
(*                                                                         *)
(* Heights and step sizes are integers counted in units of half the        *)
(* default step (0.0125 mm), so the default step 0.025 is 2 and a height   *)
(* strictly between 0 and one step exists.  Floating point rounding is not *)
(* modelled.                                                               *)
(***************************************************************************)
EXTENDS Integers, Sequences, FiniteSets, TLC

(* ------------------------------ bounds -------------------------------- *)

\* largest per-axis point count carried by a received "Num X,Y: x,y" line
MaxCount == 2
\* largest per-axis point count received while the polls are followed
MaxPollCount == 1
\* most events posted by the reader thread and not yet dispatched
MaxQueue == 1
\* most pending wx.FutureCall timers of one poll kind
MaxTimers == 2
\* largest |currentZ| the jog buttons are driven to
MaxZ == 4
\* largest height carried by a received "Z search height" line
MaxStartZ == 2
\* largest step size typed into the step size field
MaxStep == 2
\* largest bed temperature typed into the bed temperature field
MaxBedTemp == 1
\* most busy reports recorded in one observation of the busy gauge
MaxBusyRun == 7

(* ------------------------- program constants -------------------------- *)

BUSY_PROCESSING_STEPS == 6
\* self.meshPoints before any mesh report
UnknownMesh == -1
\* self.step = 0.025, in Z units
DefaultStep == 2

GCODE_EEPROM_SAVE == "M500"
GCODE_STOP_IDLE_HOLD == "M84"
GCODE_MOVE_TO_ORIGIN == "G28"
GCODE_GET_CURRENT_POSITION == "M114"
GCODE_MESH_INFO == "G29 S0"
GCODE_MESH_START == "G29 S1"
GCODE_MESH_NEXT == "G29 S2"
GCODE_MOVE_Z == "G1 Z"
GCODE_SET_BED_TEMP == "M140 S"
GCODE_GET_TEMP == "M105"

(* ------------------------------- state -------------------------------- *)

VARIABLES
    isConnected,    \* self.isConnected
    isLeveling,     \* self.isLeveling
    currentPoint,   \* self.currentPoint
    meshPoints,     \* self.meshPoints
    step,           \* self.step
    currentZ,       \* self.currentZ
    startZ,         \* self.startZ
    gauge,          \* self.gauge.GetValue(), the busy/ok handshake counter
    ui,             \* which widgets are enabled
    readerAlive,    \* the ReaderThread is running
    queue,          \* events posted with wx.PostEvent, not yet dispatched
    timers,         \* pending wx.FutureCall timers, per poll kind
    sent,           \* the lines the last step wrote with protocol.write_line
    lastOp,         \* the handler the last step ran
    advances,       \* history: OnNext invocations since the last OnStart
    meshKnown,      \* history: a total > 0 was set in this connection
    hs              \* history: gauge values shown since the last reset to 0

vars == <<isConnected, isLeveling, currentPoint, meshPoints, step, currentZ,
          startZ, gauge, ui, readerAlive, queue, timers, sent, lastOp,
          advances, meshKnown, hs>>

frame == <<isConnected, isLeveling, currentPoint, meshPoints, step, currentZ,
           startZ, ui, readerAlive, meshKnown>>

Min(a, b) == IF a < b THEN a ELSE b

(* --------------------------- written lines ---------------------------- *)

\* protocol.write_line(code) and protocol.write_line(code.format(value))
Cmd(code) == [gcode |-> code, args |-> <<>>]
CmdArg(code, value) == [gcode |-> code, args |-> <<value>>]

Wrote(code) == \E i \in 1..Len(sent) : sent[i].gcode = code

(* -------------------------- widget enabling --------------------------- *)

AllDisabled ==
    [buttonHome |-> FALSE, buttonOff |-> FALSE, buttonUp |-> FALSE,
     buttonDown |-> FALSE, stepSize |-> FALSE, bedTemperature |-> FALSE,
     buttonStart |-> FALSE, buttonNext |-> FALSE, buttonSave |-> FALSE]

\* a plausible slip: Start is enabled without looking at the mesh point count
EnableDisableUI_NoMeshCheck(conn, lev, mp) ==
    [buttonHome |-> conn, buttonOff |-> conn, buttonUp |-> conn,
     buttonDown |-> conn, stepSize |-> conn, bedTemperature |-> conn,
     buttonStart |-> conn /\ ~lev,
     buttonNext |-> conn /\ lev,
     buttonSave |-> conn /\ ~lev]

\* a plausible slip: Save is never enabled again
EnableDisableUI_NoSave(conn, lev, mp) ==
    [buttonHome |-> conn, buttonOff |-> conn, buttonUp |-> conn,
     buttonDown |-> conn, stepSize |-> conn, bedTemperature |-> conn,
     buttonStart |-> conn /\ ~lev /\ mp > 0,
     buttonNext |-> conn /\ lev,
     buttonSave |-> FALSE]

\* EnableDisableUI, as a function of the three fields it reads
EnableDisableUI(conn, lev, mp) ==
    [buttonHome |-> conn, buttonOff |-> conn, buttonUp |-> conn,
     buttonDown |-> conn, stepSize |-> conn, bedTemperature |-> conn,
     buttonStart |-> conn /\ ~lev /\ mp > 0,
     buttonNext |-> conn /\ lev,
     buttonSave |-> conn /\ ~lev]

(* ------------------------------ history ------------------------------- *)

\* no leveling session with a fixed total is being counted
NoSession == [live |-> FALSE, n |-> 0]
\* OnStart was accepted: count the OnNext invocations that follow
FreshSession == [live |-> TRUE, n |-> 0]

\* the handler the last step ran, and how it was reached: "button", "key",
\* "timer" (a timer armed in this connection), "stale" (a timer armed before
\* the last disconnect), "event", "thread", or "disabled" (the widget was
\* disabled, so the handler did not run)
Op(name, via) == [name |-> name, via |-> via, line |-> "none"]
\* the reader thread handled the received line data
Received(data) == [name |-> "handle_line", via |-> "thread", line |-> data]

\* the busy gauge was just put to 0: start observing it
HsFresh == [live |-> TRUE, busy |-> 0, done |-> FALSE, obs |-> <<>>]
\* the observation is over
HsOff == [live |-> FALSE, busy |-> 0, done |-> FALSE, obs |-> <<>>]

\* a status report was shown as gauge value g
HsReport(isBusy, g) ==
    IF ~hs.live \/ hs.done \/ (isBusy /\ hs.busy >= MaxBusyRun)
    THEN HsOff
    ELSE [live |-> TRUE,
          busy |-> IF isBusy THEN hs.busy + 1 ELSE hs.busy,
          done |-> ~isBusy,
          obs  |-> Append(hs.obs, g)]

PollKinds == {"position", "temperature", "meshRetry"}

(* ------------------------------- Init --------------------------------- *)

\* WizardFrame.__init__
Init ==
    /\ isConnected = FALSE
    /\ isLeveling = FALSE
    /\ currentPoint = 0
    /\ meshPoints = UnknownMesh
    /\ step = DefaultStep
    /\ currentZ = 0
    /\ startZ = 0
    /\ gauge = 0
    /\ ui = AllDisabled
    /\ readerAlive = FALSE
    /\ queue = <<>>
    /\ timers = [k \in PollKinds |->
                    [cur |-> 0, old |-> 0]]
    /\ sent = <<>>
    /\ lastOp = Op("__init__", "init")
    /\ advances = NoSession
    /\ meshKnown = FALSE
    /\ hs = HsFresh

(* ------------------------- command handlers --------------------------- *)

\* a click on a disabled widget, or a key press while not connected
Ignored(name) ==
    /\ lastOp' = Op(name, "disabled")
    /\ sent' = <<>>
    /\ UNCHANGED <<frame, gauge, queue, timers, advances, hs>>

\* a handler that returned early, having printed a message
Refused(name, via) ==
    /\ lastOp' = Op(name, via)
    /\ sent' = <<>>
    /\ UNCHANGED <<frame, gauge, queue, timers, advances, hs>>

\* WizardFrame.OnSave
OnSave(via) ==
    IF isLeveling
    THEN Refused("OnSave", via)
    ELSE /\ sent' = <<Cmd(GCODE_EEPROM_SAVE)>>
         /\ lastOp' = Op("OnSave", via)
         /\ UNCHANGED <<frame, gauge, queue, timers, advances, hs>>

\* WizardFrame.OnStart
OnStart(via) ==
    IF isLeveling
    THEN Refused("OnStart", via)
    ELSE /\ isLeveling' = TRUE
         /\ currentPoint' = 0
         /\ gauge' = 0
         /\ sent' = <<Cmd(GCODE_MESH_START)>>
         /\ ui' = EnableDisableUI(isConnected, TRUE, meshPoints)
         /\ lastOp' = Op("OnStart", via)
         /\ advances' = FreshSession
         /\ hs' = HsFresh
         /\ UNCHANGED <<isConnected, meshPoints, meshKnown, step, currentZ,
                        startZ, readerAlive, queue, timers>>

\* a plausible slip: > for >=, one advance too many
SessionDone_OffByOne(point, total) == point > total

\* OnNext: if self.currentPoint >= self.meshPoints
SessionDone(point, total) == point >= total

\* the history count of OnNext invocations, which stops at the total
Counted ==
    IF advances.live /\ advances.n < meshPoints
    THEN [advances EXCEPT !.n = @ + 1]
    ELSE advances

\* a plausible slip: OnNext runs without looking at isLeveling
AdvanceRefused_Never(lev) == FALSE

\* OnNext: if not self.isLeveling, print a message and return
AdvanceRefused(lev) == ~lev

\* WizardFrame.OnNext
OnNext(via) ==
    IF AdvanceRefused(isLeveling)
    THEN /\ lastOp' = Op("OnNext", via)
         /\ sent' = <<>>
         /\ advances' = Counted
         /\ UNCHANGED <<frame, gauge, queue, timers, hs>>
    ELSE /\ gauge' = 0
         /\ sent' = <<Cmd(GCODE_MESH_NEXT)>>
         /\ currentPoint' = currentPoint + 1
         /\ isLeveling' = ~SessionDone(currentPoint + 1, meshPoints)
         /\ ui' = EnableDisableUI(isConnected, isLeveling', meshPoints)
         /\ currentZ' = startZ
         /\ lastOp' = Op("OnNext", via)
         /\ advances' = Counted
         /\ hs' = HsFresh
         /\ UNCHANGED <<isConnected, meshPoints, meshKnown, step, startZ,
                        readerAlive, queue, timers>>

\* the texts typed into the step size field: a number, or not one
StepTexts ==
    {[valid |-> TRUE, val |-> v] : v \in (0 - 1)..MaxStep}
        \cup {[valid |-> FALSE, val |-> 0]}

\* WizardFrame.OnNewStepSize; float() raises on a text that is no number
OnNewStepSize(txt) ==
    /\ step' = IF txt.valid THEN txt.val ELSE step
    /\ lastOp' = Op("OnNewStepSize", "text")
    /\ sent' = <<>>
    /\ UNCHANGED <<isConnected, isLeveling, currentPoint, meshPoints, meshKnown,
                   currentZ, startZ, gauge, ui, readerAlive, queue, timers,
                   advances, hs>>

\* WizardFrame.OnUp
OnUp(via) ==
    /\ currentZ' = currentZ + step
    /\ gauge' = 0
    /\ sent' = <<CmdArg(GCODE_MOVE_Z, currentZ')>>
    /\ lastOp' = Op("OnUp", via)
    /\ hs' = HsFresh
    /\ UNCHANGED <<isConnected, isLeveling, currentPoint, meshPoints,
                   meshKnown, step, startZ, ui, readerAlive, queue, timers,
                   advances>>

\* a plausible slip: < for <=, so a move down from exactly 0 goes through
CantMoveDown_Strict(z) == z < 0

\* OnDown: if self.currentZ <= 0.0
CantMoveDown(z) == z <= 0

\* WizardFrame.OnDown
OnDown(via) ==
    IF CantMoveDown(currentZ)
    THEN Refused("OnDown", via)
    ELSE /\ currentZ' = currentZ - step
         /\ gauge' = 0
         /\ sent' = <<CmdArg(GCODE_MOVE_Z, currentZ')>>
         /\ lastOp' = Op("OnDown", via)
         /\ hs' = HsFresh
         /\ UNCHANGED <<isConnected, isLeveling, currentPoint, meshPoints,
                        meshKnown, step, startZ, ui, readerAlive, queue, timers,
                        advances>>

\* OnStepperOff and OnHome: reset the gauge, write one fixed line
GaugeResetCommand(name, code) ==
    /\ gauge' = 0
    /\ sent' = <<Cmd(code)>>
    /\ lastOp' = Op(name, "button")
    /\ hs' = HsFresh
    /\ UNCHANGED <<frame, queue, timers, advances>>

\* WizardFrame.OnStepperOff
OnStepperOff == GaugeResetCommand("OnStepperOff", GCODE_STOP_IDLE_HOLD)

\* WizardFrame.OnHome
OnHome == GaugeResetCommand("OnHome", GCODE_MOVE_TO_ORIGIN)

\* the texts typed into the bed temperature field
BedTexts ==
    {[valid |-> TRUE, val |-> v] : v \in 0..MaxBedTemp}
        \cup {[valid |-> FALSE, val |-> 0]}

\* WizardFrame.OnNewBedTemperature; float() raises before anything is written
OnNewBedTemperature(txt) ==
    /\ sent' = IF txt.valid THEN <<CmdArg(GCODE_SET_BED_TEMP, txt.val)>>
               ELSE <<>>
    /\ lastOp' = Op("OnNewBedTemperature", "text")
    /\ UNCHANGED <<frame, gauge, queue, timers, advances, hs>>

(* --------------------------- received lines --------------------------- *)

\* a received line: its shape, the numbers it carries, and whether float()
\* accepts its numeric text ("1..5" matches \d\.*\d* and is no number)
Line(shape, a, b, wf) == [shape |-> shape, a |-> a, b |-> b, wf |-> wf]

StatusLines == {Line("ok", 0, 0, TRUE), Line("busy", 0, 0, TRUE)}
MeshLines == {Line("mesh", x, y, TRUE) : x \in 0..MaxCount, y \in 0..MaxCount}
PollMeshLines ==
    {Line("mesh", x, y, TRUE) : x \in 0..MaxPollCount, y \in 0..MaxPollCount}
\* the grid report of a mesh of one point
UnitMeshLines == {Line("mesh", 1, 1, TRUE)}
\* grid reports with a count of two digits
WideMeshLines ==
    {Line("mesh", x, y, TRUE) : x \in {1, 10}, y \in {1, 10}}
        \ {Line("mesh", 1, 1, TRUE)}
MeshZLines ==
    {Line("meshz", z, 0, TRUE) : z \in 0..MaxStartZ}
        \cup {Line("meshz", 0, 0, FALSE)}
TempLines == {Line("temp", 0, 0, TRUE), Line("temp", 0, 0, FALSE)}
OtherLines == {Line("coords", 0, 0, TRUE), Line("other", 0, 0, TRUE)}

\* the events of the five wx event types
Event(type, x, y) == [type |-> type, x |-> x, y |-> y]

\* what handle_line does with a line: post an event, drop the line, or raise
Post(ev) == [kind |-> "post", ev |-> ev]
Drop == [kind |-> "drop", ev |-> Event("none", 0, 0)]
Raise == [kind |-> "raise", ev |-> Event("none", 0, 0)]

\* PRINTER_REGEX_MESH_POINTS: one digit, a comma, one digit
MatchesMeshPoints(data) ==
    data.shape = "mesh" /\ data.a \in 0..9 /\ data.b \in 0..9

\* GCodeReader.handle_line
handle_line(data) ==
    IF data.shape = "ok" THEN Post(Event("STATUS", 0, 0))
    ELSE IF data.shape = "busy" THEN Post(Event("STATUS", 1, 0))
    ELSE IF data.shape = "coords" THEN Post(Event("COORDINATES", 0, 0))
    ELSE IF MatchesMeshPoints(data)
        THEN Post(Event("MESH_POINTS", data.a, data.b))
    ELSE IF data.shape = "meshz"
        THEN IF data.wf THEN Post(Event("MESH_Z", data.a, 0)) ELSE Raise
    ELSE IF data.shape = "temp"
        THEN IF data.wf THEN Post(Event("TEMPERATURE", data.a, 0)) ELSE Raise
    ELSE Drop

\* a plausible slip: the reader thread sets the frame's fields itself instead
\* of posting an event
ReaderStep_Direct(L) ==
    /\ isConnected
    /\ readerAlive
    /\ \E data \in L :
        LET r == handle_line(data) IN
        /\ readerAlive' = (r.kind # "raise")
        /\ lastOp' = Received(data)
        /\ meshPoints' = IF r.kind = "post" /\ r.ev.type = "MESH_POINTS"
                         THEN r.ev.x * r.ev.y ELSE meshPoints
        /\ gauge' = IF r.kind = "post" /\ r.ev.type = "STATUS"
                    THEN BUSY_PROCESSING_STEPS ELSE gauge
    /\ sent' = <<>>
    /\ UNCHANGED <<isConnected, isLeveling, currentPoint, step, currentZ,
                   startZ, ui, queue, timers, advances, meshKnown, hs>>

\* the reader thread receives one line of the set L; an exception raised in
\* handle_line ends the thread
ReaderStep(L) ==
    /\ isConnected
    /\ readerAlive
    /\ \E data \in L :
        LET r == handle_line(data) IN
        /\ r.kind = "post" => Len(queue) < MaxQueue
        /\ queue' = IF r.kind = "post" THEN Append(queue, r.ev) ELSE queue
        /\ readerAlive' = (r.kind # "raise")
        /\ lastOp' = Received(data)
    /\ sent' = <<>>
    /\ UNCHANGED <<isConnected, isLeveling, currentPoint, meshPoints, step,
                   currentZ, startZ, gauge, ui, timers, advances, meshKnown,
                   hs>>

(* --------------------------- event handlers --------------------------- *)

\* a plausible slip: the busy count is not held at the gauge's range
OnBusyValue_NoLimit(val, range) == val + 1

\* OnBusy: the value the gauge gets
OnBusyValue(val, range) == IF val < range THEN val + 1 ELSE val

\* WizardFrame.OnBusy
OnBusy ==
    /\ gauge' = OnBusyValue(gauge, BUSY_PROCESSING_STEPS)
    /\ hs' = HsReport(TRUE, gauge')
    /\ lastOp' = Op("OnBusy", "event")
    /\ UNCHANGED <<frame, timers, advances>>

\* WizardFrame.OnDone
OnDone ==
    /\ gauge' = BUSY_PROCESSING_STEPS
    /\ hs' = HsReport(FALSE, gauge')
    /\ lastOp' = Op("OnDone", "event")
    /\ UNCHANGED <<frame, timers, advances>>

\* WizardFrame.OnStatus
OnStatus(ev) == IF ev.x = 0 THEN OnDone ELSE OnBusy

\* a plausible slip: the new total is stored and the widgets are not refreshed
OnMeshPoints_NoRefresh(ev) ==
    /\ meshPoints' = ev.x * ev.y
    /\ advances' = IF meshPoints' = meshPoints THEN advances ELSE NoSession
    /\ meshKnown' = (meshKnown \/ (isConnected /\ meshPoints' > 0))
    /\ lastOp' = Op("OnMeshPoints", "event")
    /\ UNCHANGED <<isConnected, isLeveling, currentPoint, step, currentZ,
                   startZ, gauge, ui, readerAlive, timers, hs>>

\* WizardFrame.OnMeshPoints
OnMeshPoints(ev) ==
    /\ meshPoints' = ev.x * ev.y
    /\ ui' = EnableDisableUI(isConnected, isLeveling, meshPoints')
    /\ advances' = IF meshPoints' = meshPoints THEN advances ELSE NoSession
    /\ meshKnown' = (meshKnown \/ (isConnected /\ meshPoints' > 0))
    /\ lastOp' = Op("OnMeshPoints", "event")
    /\ UNCHANGED <<isConnected, isLeveling, currentPoint, step, currentZ,
                   startZ, gauge, readerAlive, timers, hs>>

\* WizardFrame.OnMeshZ
OnMeshZ(ev) ==
    /\ startZ' = ev.x
    /\ currentZ' = ev.x
    /\ gauge' = BUSY_PROCESSING_STEPS
    /\ hs' = HsOff
    /\ lastOp' = Op("OnMeshZ", "event")
    /\ UNCHANGED <<isConnected, isLeveling, currentPoint, meshPoints,
                   meshKnown, step, ui, readerAlive, timers, advances>>

\* WizardFrame.OnCoordinates and OnTemperature: labels only
LabelOnly(name) ==
    /\ lastOp' = Op(name, "event")
    /\ UNCHANGED <<frame, gauge, timers, advances, hs>>

\* the event loop hands the oldest posted event to the handler bound to it
Dispatch ==
    /\ queue # <<>>
    /\ queue' = Tail(queue)
    /\ sent' = <<>>
    /\ LET ev == Head(queue) IN
        CASE ev.type = "STATUS" -> OnStatus(ev)
          [] ev.type = "MESH_POINTS" -> OnMeshPoints(ev)
          [] ev.type = "MESH_Z" -> OnMeshZ(ev)
          [] ev.type = "COORDINATES" -> LabelOnly("OnCoordinates")
          [] OTHER -> LabelOnly("OnTemperature")

(* ------------------------------- polls -------------------------------- *)

\* timers t with one more timer of kind k armed now: while connected it
\* belongs to the open connection, otherwise to none
Armed(t, k) ==
    IF isConnected THEN [t EXCEPT ![k].cur = @ + 1]
    ELSE [t EXCEPT ![k].old = @ + 1]

\* timers with one timer of kind k, of the given age, gone because it fired
Fired(k, age) ==
    IF age = "timer" THEN [timers EXCEPT ![k].cur = @ - 1]
    ELSE [timers EXCEPT ![k].old = @ - 1]

Pending(k, age) ==
    IF age = "timer" THEN timers[k].cur > 0 ELSE timers[k].old > 0

\* PollPosition and PollTemperature, run by a timer: while connected, write
\* the request and schedule the next run
PeriodicPoll(k, age, name, code) ==
    /\ Pending(k, age)
    /\ sent' = IF isConnected THEN <<Cmd(code)>> ELSE <<>>
    /\ timers' = IF isConnected THEN Armed(Fired(k, age), k) ELSE Fired(k, age)
    /\ lastOp' = Op(name, age)
    /\ UNCHANGED <<frame, gauge, queue, advances, hs>>

\* WizardFrame.PollPosition, run by a timer
PollPosition ==
    \E age \in {"timer", "stale"} :
        PeriodicPoll("position", age, "PollPosition",
                     GCODE_GET_CURRENT_POSITION)

\* WizardFrame.PollTemperature, run by a timer
PollTemperature ==
    \E age \in {"timer", "stale"} :
        PeriodicPoll("temperature", age, "PollTemperature", GCODE_GET_TEMP)

\* a plausible slip: the request is written without looking at the connection
PollMeshData_Unchecked == <<Cmd(GCODE_MESH_INFO)>>

\* WizardFrame.PollMeshData: the lines it writes
PollMeshData == IF isConnected THEN <<Cmd(GCODE_MESH_INFO)>> ELSE <<>>

\* WizardFrame.PollMeshDataRetry, run by a timer
PollMeshDataRetry ==
    \E age \in {"timer", "stale"} :
        /\ Pending("meshRetry", age)
        /\ sent' = IF meshPoints <= 0 THEN PollMeshData ELSE <<>>
        /\ timers' = IF meshPoints <= 0
                     THEN Armed(Fired("meshRetry", age), "meshRetry")
                     ELSE Fired("meshRetry", age)
        /\ lastOp' = Op("PollMeshDataRetry", age)
        /\ UNCHANGED <<frame, gauge, queue, advances, hs>>

(* ----------------------- connect and disconnect ----------------------- *)

\* a plausible slip: the connect leaves the first mesh-info request to the
\* retry timer
ConnectRequests_NoMeshInfo ==
    <<Cmd(GCODE_GET_CURRENT_POSITION), Cmd(GCODE_GET_TEMP)>>

\* the lines a successful connect writes: PollPosition(), PollMeshData(),
\* PollTemperature(), in this order
ConnectRequests ==
    <<Cmd(GCODE_GET_CURRENT_POSITION), Cmd(GCODE_MESH_INFO),
      Cmd(GCODE_GET_TEMP)>>

\* room for the timers a connect arms
TimerRoom ==
    \A k \in PollKinds : timers[k].cur + timers[k].old < MaxTimers

\* WizardFrame.OnConnectDisconnect; openOk: serial.open() succeeds
OnConnectDisconnect(openOk) ==
    /\ isLeveling' = FALSE
    /\ currentPoint' = 0
    /\ IF isConnected
       THEN /\ readerAlive' = FALSE
            /\ isConnected' = FALSE
            /\ gauge' = 0
            /\ ui' = EnableDisableUI(FALSE, FALSE, meshPoints)
            /\ timers' = [k \in PollKinds |->
                            [cur |-> 0,
                             old |-> timers[k].cur + timers[k].old]]
            /\ sent' = <<>>
            /\ lastOp' = Op("OnConnectDisconnect", "close")
            /\ advances' = NoSession
            /\ meshKnown' = FALSE
            /\ hs' = HsFresh
            /\ UNCHANGED <<meshPoints, step, currentZ, startZ, queue>>
       ELSE IF openOk
       THEN /\ TimerRoom
            /\ isConnected' = TRUE
            /\ readerAlive' = TRUE
            /\ meshPoints' = UnknownMesh
            /\ ui' = EnableDisableUI(TRUE, FALSE, UnknownMesh)
            /\ sent' = ConnectRequests
            /\ timers' = [k \in PollKinds |->
                            [timers[k] EXCEPT !.cur = @ + 1]]
            /\ lastOp' = Op("OnConnectDisconnect", "open")
            /\ advances' = NoSession
            /\ meshKnown' = FALSE
            /\ UNCHANGED <<step, currentZ, startZ, gauge, queue, hs>>
       ELSE /\ lastOp' = Op("OnConnectDisconnect", "openFailed")
            /\ sent' = <<>>
            /\ advances' = NoSession
            /\ UNCHANGED <<isConnected, meshPoints, step, currentZ, startZ,
                           gauge, ui, readerAlive, queue, timers, meshKnown,
                           hs>>

(* ---------------------- the user at the widgets ----------------------- *)

\* the Connect/Disconnect button, which is never disabled
ClickSerial == \E openOk \in BOOLEAN : OnConnectDisconnect(openOk)

ClickStart == IF ui.buttonStart THEN OnStart("button") ELSE Ignored("OnStart")

ClickNext == IF ui.buttonNext THEN OnNext("button") ELSE Ignored("OnNext")

ClickSave == IF ui.buttonSave THEN OnSave("button") ELSE Ignored("OnSave")

ClickHome == IF ui.buttonHome THEN OnHome ELSE Ignored("OnHome")

ClickOff == IF ui.buttonOff THEN OnStepperOff ELSE Ignored("OnStepperOff")

\* the jog stays within the heights explored
ZRoom(z) == z \in (0 - MaxZ)..MaxZ

ClickUp ==
    /\ ZRoom(currentZ + step)
    /\ IF ui.buttonUp THEN OnUp("button") ELSE Ignored("OnUp")

ClickDown ==
    /\ ZRoom(currentZ - step)
    /\ IF ui.buttonDown THEN OnDown("button") ELSE Ignored("OnDown")

EnterStepSize ==
    \E txt \in StepTexts :
        IF ui.stepSize THEN OnNewStepSize(txt) ELSE Ignored("OnNewStepSize")

EnterBedTemperature ==
    \E txt \in BedTexts :
        IF ui.bedTemperature THEN OnNewBedTemperature(txt)
        ELSE Ignored("OnNewBedTemperature")

\* WizardFrame.OnKeyDown
OnKeyDown(key) ==
    IF isConnected
    THEN CASE key = "DOWN" -> ZRoom(currentZ - step) /\ OnDown("key")
           [] key = "UP" -> ZRoom(currentZ + step) /\ OnUp("key")
           [] key = "RIGHT" -> OnNext("key")
           [] OTHER -> Refused("OnKeyDown", "key")
    ELSE Ignored("OnKeyDown")

KeyRight == OnKeyDown("RIGHT")

KeyJog == \E key \in {"UP", "DOWN"} : OnKeyDown(key)

(* --------------------------- specifications --------------------------- *)

\* connection, mesh reports and the leveling session
NextSession ==
    \/ ClickSerial
    \/ ReaderStep(MeshLines)
    \/ Dispatch
    \/ ClickStart
    \/ ClickNext
    \/ KeyRight
    \/ ClickSave

SpecSession == Init /\ [][NextSession]_vars

\* connection, mesh reports and the three polls
NextPoll ==
    \/ ClickSerial
    \/ ReaderStep(PollMeshLines)
    \/ Dispatch
    \/ PollPosition
    \/ PollTemperature
    \/ PollMeshDataRetry

SpecPoll == Init /\ [][NextPoll]_vars

\* connection, mesh reports of any width and the mesh retry
NextMesh ==
    \/ ClickSerial
    \/ ReaderStep(PollMeshLines \cup WideMeshLines)
    \/ Dispatch
    \/ PollMeshDataRetry
    \/ ClickStart

SpecMesh == Init /\ [][NextMesh]_vars

\* connection, start heights and the jog
NextJog ==
    \/ ClickSerial
    \/ ReaderStep(MeshZLines)
    \/ Dispatch
    \/ ClickUp
    \/ ClickDown
    \/ KeyJog
    \/ EnterStepSize

SpecJog == Init /\ [][NextJog]_vars

\* connection, status reports and the commands that write one line
NextHandshake ==
    \/ ClickSerial
    \/ ReaderStep(StatusLines \cup MeshZLines)
    \/ Dispatch
    \/ ClickHome
    \/ ClickOff
    \/ ClickSave
    \/ EnterBedTemperature

SpecHandshake == Init /\ [][NextHandshake]_vars

\* connection, a mesh of one point and every handler that writes a line
NextCommands ==
    \/ ClickSerial
    \/ ReaderStep(UnitMeshLines)
    \/ Dispatch
    \/ ClickHome
    \/ ClickOff
    \/ EnterBedTemperature
    \/ ClickSave
    \/ ClickUp
    \/ ClickDown
    \/ KeyJog
    \/ ClickStart
    \/ ClickNext
    \/ KeyRight
    \/ PollPosition
    \/ PollTemperature
    \/ PollMeshDataRetry

SpecCommands == Init /\ [][NextCommands]_vars

\* connection, a mesh of one point, start heights, the session and the jog,
\* with the step size left at its default
NextZ ==
    \/ ClickSerial
    \/ ReaderStep(UnitMeshLines \cup MeshZLines)
    \/ Dispatch
    \/ ClickStart
    \/ ClickNext
    \/ KeyRight
    \/ ClickUp
    \/ ClickDown
    \/ KeyJog

SpecZ == Init /\ [][NextZ]_vars

(* ------------------------------- claims ------------------------------- *)

\* C1: from a freshly started session whose total stays N, the session is
\* active with point index k after k < N invocations of OnNext, and inactive
\* once N invocations have been made.
C1_AdvanceNTimes ==
    advances.live =>
        /\ advances.n < meshPoints =>
            isLeveling /\ currentPoint = advances.n
        /\ advances.n >= meshPoints => ~isLeveling

\* C1 witness: the N-th OnNext of a session of N = MaxCount * MaxCount points
\* has just been made and ended the session.
C1_Witness ==
    /\ advances.live
    /\ meshPoints = MaxCount * MaxCount
    /\ advances.n = meshPoints
    /\ lastOp.name = "OnNext"
    /\ sent = <<Cmd(GCODE_MESH_NEXT)>>
    /\ ~isLeveling

\* C2 (as claimed): whenever a leveling session is active, the current point
\* index is strictly below the total mesh point count.
C2_IndexBelowTotal == isLeveling => currentPoint < meshPoints

\* C3: an attempt to start writes G29 S1, sets the point index to 0 and makes
\* the session active when connected with known mesh geometry and no active
\* session; in every other state it writes nothing and leaves the session
\* flag and the point index as they were.
C3_StartGate ==
    [][lastOp'.name = "OnStart" =>
        IF isConnected /\ meshPoints > 0 /\ ~isLeveling
        THEN /\ isLeveling'
             /\ currentPoint' = 0
             /\ sent' = <<Cmd(GCODE_MESH_START)>>
        ELSE /\ sent' = <<>>
             /\ isLeveling' = isLeveling
             /\ currentPoint' = currentPoint]_vars

\* C3 witness: start was attempted while connected with the mesh geometry
\* still unknown or zero, and was turned down.
C3_Witness ==
    /\ lastOp.name = "OnStart"
    /\ isConnected
    /\ meshPoints <= 0
    /\ ~isLeveling
    /\ sent = <<>>

\* C4: an attempt to save writes M500 when connected with no session active,
\* and writes nothing while a leveling session is active.
C4_SaveGate ==
    [][lastOp'.name = "OnSave" =>
        /\ isLeveling => sent' = <<>>
        /\ isConnected /\ ~isLeveling =>
            sent' = <<Cmd(GCODE_EEPROM_SAVE)>>]_vars

\* C4 witness: save was attempted during a leveling session and wrote nothing.
C4_Witness ==
    /\ lastOp.name = "OnSave"
    /\ isLeveling
    /\ sent = <<>>

\* C5: while connected, a jog down is turned down (nothing written, current Z
\* kept) exactly when current Z <= 0, and otherwise subtracts one step and
\* writes the Z move, even when that leaves current Z negative; a jog up
\* always adds one step and writes the Z move.
C5_Jog ==
    [][/\ lastOp'.name = "OnDown" /\ isConnected =>
            IF currentZ <= 0
            THEN sent' = <<>> /\ currentZ' = currentZ
            ELSE /\ currentZ' = currentZ - step
                 /\ sent' = <<CmdArg(GCODE_MOVE_Z, currentZ - step)>>
       /\ lastOp'.name = "OnUp" /\ isConnected =>
            /\ currentZ' = currentZ + step
            /\ sent' = <<CmdArg(GCODE_MOVE_Z, currentZ + step)>>]_vars

\* C5 witness: a jog down from a height between 0 and one step was accepted
\* and left current Z negative.
C5_Witness ==
    /\ lastOp.name = "OnDown"
    /\ step > 0
    /\ currentZ < 0
    /\ currentZ + step > 0
    /\ sent = <<CmdArg(GCODE_MOVE_Z, currentZ)>>

\* C6 (as claimed): the disconnect command invoked again right after a
\* disconnect leaves the state Disconnected.
C6_DisconnectTwice ==
    [][lastOp = Op("OnConnectDisconnect", "close")
            /\ lastOp'.name = "OnConnectDisconnect"
        => ~isConnected']_vars

\* C7 (as claimed): right after a disconnect the state is Disconnected, the
\* session is inactive with point index 0, and the mesh geometry is unknown.
C7_DisconnectClears ==
    lastOp = Op("OnConnectDisconnect", "close") =>
        /\ ~isConnected
        /\ ~isLeveling
        /\ currentPoint = 0
        /\ meshPoints = UnknownMesh

\* C8 (as claimed): no poll timer armed before the last disconnect is still
\* pending, and no such timer writes a request or is armed again.
C8_PollsStopped ==
    /\ \A k \in PollKinds : timers[k].old = 0
    /\ lastOp.via = "stale" => sent = <<>>

\* C9 (as claimed): in the state right after any write to the transport the
\* handshake counter is 0.
C9_WriteResetsGauge == sent # <<>> => gauge = 0

\* C10: starting from handshake counter 0, the counter values shown for k
\* busy reports followed by at most one ok report are 1, 2, ..., min(k, 6)
\* and then 6 for the ok; the counter holds the value shown last.
C10_BusyThenOk ==
    hs.live =>
        /\ Len(hs.obs) = hs.busy + (IF hs.done THEN 1 ELSE 0)
        /\ \A i \in 1..Len(hs.obs) :
            hs.obs[i] = IF i <= hs.busy
                        THEN Min(i, BUSY_PROCESSING_STEPS)
                        ELSE BUSY_PROCESSING_STEPS
        /\ hs.obs # <<>> => gauge = hs.obs[Len(hs.obs)]
        /\ hs.obs = <<>> => gauge = 0

\* C10 witness: three busy reports and then ok were shown as 1, 2, 3, 6.
C10_Witness ==
    /\ hs.live
    /\ hs.done
    /\ hs.obs = <<1, 2, 3, BUSY_PROCESSING_STEPS>>
    /\ lastOp.name = "OnDone"

\* C11: every mesh-grid report whose two counts are at least 1, of one digit
\* or more, reaches the engine as a grid event carrying both counts, and the
\* engine handling a grid event sets the total to the product of its counts.
C11_TotalIsProduct ==
    [][/\ (/\ lastOp'.name = "handle_line"
            /\ lastOp'.line.shape = "mesh"
            /\ lastOp'.line.a >= 1
            /\ lastOp'.line.b >= 1)
           => queue' = Append(queue, Event("MESH_POINTS", lastOp'.line.a,
                                           lastOp'.line.b))
       /\ (lastOp'.name = "OnMeshPoints" /\ queue # <<>>)
           => meshPoints' = Head(queue).x * Head(queue).y]_vars

\* C12: once a mesh report made the geometry known in a connection session,
\* the retry has stopped for good: no mesh-info request is written during
\* the rest of that session.
C12_RetryStops == [][meshKnown => ~Wrote(GCODE_MESH_INFO)']_vars

\* C13: the jog step is strictly positive in every reachable state, a typed
\* step size that is zero or negative having been rejected.
C13_StepPositive == step > 0

\* C14: a connect whose open fails leaves the program disconnected, arms no
\* timer and writes nothing; a connect whose open succeeds leaves it
\* connected with the mesh geometry unknown and no session active, writes
\* the position, mesh-info and temperature requests at once and arms the
\* mesh retry and the two periodic polls.
C14_Connect ==
    [][(lastOp'.name = "OnConnectDisconnect" /\ ~isConnected) =>
        /\ lastOp'.via \in {"open", "openFailed"}
        /\ lastOp'.via = "openFailed" =>
            /\ ~isConnected'
            /\ timers' = timers
            /\ sent' = <<>>
        /\ lastOp'.via = "open" =>
            /\ isConnected'
            /\ meshPoints' = UnknownMesh
            /\ ~isLeveling'
            /\ sent' = <<Cmd(GCODE_GET_CURRENT_POSITION),
                         Cmd(GCODE_MESH_INFO), Cmd(GCODE_GET_TEMP)>>
            /\ \A k \in PollKinds :
                timers'[k] = [timers[k] EXCEPT !.cur = @ + 1]]_vars

\* C14 witness: a reconnect has written the three requests and armed a new
\* mesh retry while the retry timer of the closed connection is still pending.
C14_Witness ==
    /\ lastOp = Op("OnConnectDisconnect", "open")
    /\ isConnected
    /\ meshPoints = UnknownMesh
    /\ Len(sent) = 3
    /\ Wrote(GCODE_MESH_INFO)
    /\ timers["meshRetry"] = [cur |-> 1, old |-> 1]

\* C15: a received line of a known shape whose number does not parse is
\* dropped and does not stop the receiving: the reader thread is still
\* running after it, so that later reports are classified and applied.
C15_MalformedDropped ==
    (lastOp.name = "handle_line" /\ ~lastOp.line.wf) => readerAlive

\* C16: no line is ever written while the program is disconnected: whenever
\* a step has written a line (home, motors off, bed temperature, save, jog,
\* start, advance or one of the three polls), the connection is open.
C16_NoWriteDisconnected == sent # <<>> => isConnected

\* C16 witness: a mesh retry timer left over from a closed connection ran
\* while disconnected with the geometry unknown, and wrote nothing.
C16_Witness ==
    /\ lastOp = Op("PollMeshDataRetry", "stale")
    /\ ~isConnected
    /\ meshPoints <= 0
    /\ sent = <<>>

\* C17: the reader thread never changes the engine state itself: a step of
\* the reader leaves every field of the frame, the gauge, the widgets and the
\* timers alone, writes nothing and at most appends the one event of the
\* line it received to the event queue; every handler of a report runs as
\* one step of the event loop, which takes the oldest posted event.
C17_ReaderOnlyPosts ==
    [][/\ lastOp'.name = "handle_line" =>
            /\ UNCHANGED <<isConnected, isLeveling, currentPoint, meshPoints,
                           step, currentZ, startZ, gauge, ui, timers>>
            /\ sent' = <<>>
            /\ LET r == handle_line(lastOp'.line) IN
                queue' = IF r.kind = "post" THEN Append(queue, r.ev)
                         ELSE queue
       /\ lastOp'.via = "event" => (queue # <<>> /\ queue' = Tail(queue))]_vars

\* C17 witness: the reader thread has received the largest grid report and
\* posted its event; the total is still unknown, the event loop not
\* having run the handler yet.
C17_Witness ==
    /\ lastOp.name = "handle_line"
    /\ lastOp.line = Line("mesh", MaxCount, MaxCount, TRUE)
    /\ queue = <<Event("MESH_POINTS", MaxCount, MaxCount)>>
    /\ meshPoints = UnknownMesh

\* C18: the handshake counter is within 0..6 in every reachable state; a
\* busy report received at 6 leaves it at 6.
C18_GaugeInRange == gauge \in 0..BUSY_PROCESSING_STEPS

\* C18 witness: more busy reports than the gauge has steps were received in
\* a row, and the counter stands at 6 after the last of them.
C18_Witness ==
    /\ lastOp.name = "OnBusy"
    /\ hs.live
    /\ hs.busy > BUSY_PROCESSING_STEPS
    /\ gauge = BUSY_PROCESSING_STEPS

\* C19: the mesh geometry is set at most once per connection session: a
\* mesh report handled while the total is known leaves the total unchanged.
C19_SetOnce ==
    [][(lastOp'.name = "OnMeshPoints" /\ isConnected /\ meshPoints > 0)
        => meshPoints' = meshPoints]_vars

C21_GaugeChanges ==
    [][/\ gauge' # gauge =>
            \/ sent' # <<>> /\ gauge' = 0
            \/ lastOp'.name = "OnBusy" /\ gauge' = gauge + 1
            \/ lastOp'.name = "OnDone" /\ gauge' = BUSY_PROCESSING_STEPS
       /\ (lastOp'.name = "OnMeshZ" /\ queue # <<>>) =>
            /\ startZ' = Head(queue).x
            /\ currentZ' = Head(queue).x
            /\ UNCHANGED <<gauge, isConnected, isLeveling, currentPoint,
                           meshPoints>>]_vars

\* C22: for each poll kind at most one self-rescheduling timer is pending
\* at any time, whatever the sequence of connects and disconnects.
C22_OneChain ==
    \A k \in PollKinds : timers[k].cur + timers[k].old <= 1

C24_GatingAgrees ==
    /\ ui.buttonStart = (isConnected /\ ~isLeveling /\ meshPoints > 0)
    /\ ui.buttonNext = (isConnected /\ isLeveling)
    /\ ui.buttonSave = (isConnected /\ ~isLeveling)
    /\ ui.buttonHome = isConnected
    /\ ui.buttonOff = isConnected
    /\ ui.buttonUp = isConnected
    /\ ui.buttonDown = isConnected
    /\ ui.stepSize = isConnected
    /\ ui.bedTemperature = isConnected

\* C24 witness: a mesh report handled during a leveling session brought the
\* total to 0; Next is still enabled, Start and Save are not.
C24_Witness ==
    /\ lastOp.name = "OnMeshPoints"
    /\ isConnected
    /\ isLeveling
    /\ meshPoints = 0
    /\ ui.buttonNext
    /\ ~ui.buttonStart
    /\ ~ui.buttonSave

====
